---- MODULE Spec2Model ----
(***************************************************************************)
(* Model of the email-helper labeling pipeline: classifier.label_email     *)
(* with its learned-pattern cache, and main.run, the batch loop around it. *)
(*                                                                         *)
(* A Python str is modelled as a sequence of atoms.  An atom is a chunk of *)
(* characters that is never split by the operations below, except by the   *)
(* body[:BODY_SNIPPET_CHARS] slice.  The concatenation of the atoms is the *)
(* string; a space is the explicit atom " ".  Substring search for a       *)
(* phrase is search for the phrase's atoms as a contiguous run.            *)
(***************************************************************************)
EXTENDS Integers, Sequences, FiniteSets, TLC

VARIABLES
    email,          \* the email record under test (argument of label_email)
    history,        \* list of historical sample records
    fileState,      \* state of the samples file at SAMPLES_PATH
    cacheKey,       \* classifier._CACHE_KEY
    domainCache,    \* classifier._DOMAIN_TO_CATEGORY_CACHE
    fromCache,      \* classifier._FROM_TO_CATEGORY_CACHE
    call,           \* the last label_email call: arguments and outcome
    categoryLists,  \* the category lists the caller passes to label_email
    run,            \* main.run: position, loaded inputs, labeled list, output file
    main            \* main.main: position, exit status, what the handler did

vars == <<email, history, fileState, cacheKey, domainCache, fromCache, call,
          categoryLists, run, main>>

-----------------------------------------------------------------------------
(* Constants.py *)

SPECIAL_CATEGORY_JUNK == "Junk"
SPECIAL_CATEGORY_ARCHIVE == "Archive"
OPERATIONAL_CATEGORIES_TO_SKIP == {"Inbox", "Drafts", "Sent", "Trash"}
ALLOWED_PRIORITIES == {"high", "normal"}
ALLOWED_MUTABLE_FIELDS == {"category", "priority"}
MIN_CATEGORY_SCORE == 3
MIN_CATEGORY_MARGIN == 2
BODY_SNIPPET_CHARS == 280
W_FROM == 4
W_DOMAIN == 5
W_SUBJECT == 2
W_BODY == 1
LINK_DENSITY_THRESHOLD == 3

\* The learned-override thresholds are imported by classifier.py but are not
\* set in Constants.py; the values are configuration.  MIN_DOMAIN_RATIO is the
\* fraction MIN_DOMAIN_RATIO_NUM / MIN_DOMAIN_RATIO_DEN.
MIN_FROM_HITS == 2
MIN_DOMAIN_HITS == 3
MIN_DOMAIN_RATIO_NUM == 3
MIN_DOMAIN_RATIO_DEN == 5

-----------------------------------------------------------------------------
(* Strings as sequences of atoms *)

\* A run of BODY_SNIPPET_CHARS filler dots, and what a slice leaves of a cut atom.
Pad == "<dots>"
Cut == "<cut>"

NonAlnumAtoms == {" ", "@", ".", "<", ">", "?", "://", "\"", Pad, Cut}

IsAlnum(a) == a \notin NonAlnumAtoms

AtomLen(a) == IF a = Pad THEN BODY_SNIPPET_CHARS ELSE Len(a)

\* str.lower() on one atom
LowerAtom(a) ==
    CASE a = "Unsubscribe" -> "unsubscribe"
      [] a = "Finance" -> "finance"
      [] a = "Work" -> "work"
      [] a = "Team" -> "team"
      [] a = "Billing" -> "billing"
      [] a = "Acme" -> "acme"
      [] a = "Other" -> "other"
      [] a = "Junk" -> "junk"
      [] a = "Archive" -> "archive"
      [] a = "Inbox" -> "inbox"
      [] a = "Drafts" -> "drafts"
      [] a = "Sent" -> "sent"
      [] a = "Trash" -> "trash"
      [] OTHER -> a

StartsUpper(a) == LowerAtom(a) # a

\* every alphanumeric atom of the model ends in a lower-case letter
EndsLower(a) == IsAlnum(a)

\* str.lower()
RECURSIVE Lower(_)
Lower(s) == IF s = <<>> THEN <<>> ELSE <<LowerAtom(Head(s))>> \o Lower(Tail(s))

\* needle in haystack, for a one-character needle that is an atom of its own
HasAtom(s, a) == \E i \in 1..Len(s) : s[i] = a

\* phrase in s
Contains(s, phrase) ==
    \E i \in 1..(Len(s) - Len(phrase) + 1) : SubSeq(s, i, i + Len(phrase) - 1) = phrase

\* s.count(a) for an atom a
Count(s, a) == Cardinality({i \in 1..Len(s) : s[i] = a})

FirstIndex(s, a) == CHOOSE i \in 1..Len(s) : s[i] = a /\ \A j \in 1..(i - 1) : s[j] # a

\* s.partition(a)[0] and s.partition(a)[2]
Before(s, a) == IF HasAtom(s, a) THEN SubSeq(s, 1, FirstIndex(s, a) - 1) ELSE s
After(s, a) == IF HasAtom(s, a) THEN SubSeq(s, FirstIndex(s, a) + 1, Len(s)) ELSE <<>>

RECURSIVE LStrip(_, _)
LStrip(s, a) == IF s # <<>> /\ Head(s) = a THEN LStrip(Tail(s), a) ELSE s

RECURSIVE RStrip(_, _)
RStrip(s, a) == IF s # <<>> /\ s[Len(s)] = a THEN RStrip(SubSeq(s, 1, Len(s) - 1), a) ELSE s

\* s.strip() and s.strip('"')
Strip(s) == RStrip(LStrip(s, " "), " ")
StripQuotes(s) == RStrip(LStrip(s, "\""), "\"")

\* s[:n].  No atom of the model other than Pad has a proper prefix that
\* contains a phrase or a category name, so a cut atom is the atom Cut.
RECURSIVE Slice(_, _)
Slice(s, n) ==
    IF s = <<>> \/ n <= 0 THEN <<>>
    ELSE IF AtomLen(Head(s)) <= n
         THEN <<Head(s)>> \o Slice(Tail(s), n - AtomLen(Head(s)))
         ELSE <<Cut>>

\* " ".join(words) where each word is a string
RECURSIVE Join(_)
Join(words) ==
    IF words = <<>> THEN <<>>
    ELSE IF Len(words) = 1 THEN words[1]
    ELSE words[1] \o <<" ">> \o Join(Tail(words))

-----------------------------------------------------------------------------
(* classifier.py: phrase lists *)

PROMOTIONAL_WORDS ==
    { <<"deal">>, <<"limited", " ", "time">>, <<"offer">>, <<"sale">>, <<"discount">>,
      <<"coupon">>, <<"promo">>, <<"save", " ", "now">>, <<"shop", " ", "now">> }

SCAM_PHRASES ==
    { <<"urgent", " ", "action", " ", "required">>, <<"verify", " ", "your", " ", "account">>,
      <<"suspended", " ", "account">>, <<"wire", " ", "transfer">>,
      <<"claim", " ", "your", " ", "prize">>, <<"you", " ", "have", " ", "won">>,
      <<"bitcoin", " ", "payment">>, <<"gift", " ", "card">> }

HIGH_PRIORITY_PHRASES ==
    { <<"please", " ", "respond">>, <<"asap">>, <<"urgent">>, <<"deadline">>, <<"confirm">>,
      <<"action", " ", "required">>, <<"need", " ", "your">> }

-----------------------------------------------------------------------------
(* classifier.py: text normalizer *)

\* A category name as a str: one atom, or the empty string.
NameStr(category) == IF category = "" THEN <<>> ELSE <<category>>

\* (?<![a-z0-9])needle(?![a-z0-9]) has a match in haystack
_has_boundary_match(haystack, needle) ==
    /\ needle # <<>>
    /\ \E i \in 1..(Len(haystack) - Len(needle) + 1) :
          /\ SubSeq(haystack, i, i + Len(needle) - 1) = needle
          /\ (i = 1 \/ ~IsAlnum(haystack[i - 1]))
          /\ (i + Len(needle) - 1 = Len(haystack) \/ ~IsAlnum(haystack[i + Len(needle)]))

extract_sender_email(from_field) ==
    LET value == IF HasAtom(from_field, "<") /\ HasAtom(from_field, ">")
                 THEN Before(After(from_field, "<"), ">")
                 ELSE from_field
    IN  Lower(Strip(value))

extract_domain(sender_email) ==
    IF ~HasAtom(sender_email, "@") THEN <<>>
    ELSE Lower(Strip(After(sender_email, "@")))

\* CAMEL_CASE_BOUNDARY.sub(r"\1 \2", text)
RECURSIVE CamelSplit(_)
CamelSplit(s) ==
    IF Len(s) <= 1 THEN s
    ELSE IF EndsLower(s[1]) /\ IsAlnum(s[2]) /\ StartsUpper(s[2])
         THEN <<s[1], " ">> \o CamelSplit(Tail(s))
         ELSE <<s[1]>> \o CamelSplit(Tail(s))

\* ALNUM_CHUNKS.findall(s): the maximal alphanumeric runs of s, in order.
\* No atom of the model holds a digit, so a run is one [a-z]+ token.
RECURSIVE AlnumChunks(_, _)
AlnumChunks(s, cur) ==
    IF s = <<>> THEN (IF cur = <<>> THEN <<>> ELSE <<cur>>)
    ELSE IF IsAlnum(Head(s)) THEN AlnumChunks(Tail(s), Append(cur, Head(s)))
    ELSE (IF cur = <<>> THEN <<>> ELSE <<cur>>) \o AlnumChunks(Tail(s), <<>>)

_split_sender_tokens(text) == AlnumChunks(Lower(CamelSplit(text)), <<>>)

_extract_sender_parts(from_field) ==
    LET value == Strip(from_field)
        display == IF HasAtom(value, "<") /\ HasAtom(value, ">")
                   THEN StripQuotes(Strip(Before(value, "<")))
                   ELSE value
        sender_email == extract_sender_email(from_field)
        domain == extract_domain(sender_email)
        local_part == IF HasAtom(sender_email, "@") THEN Before(sender_email, "@")
                      ELSE sender_email
        token_parts == _split_sender_tokens(display) \o _split_sender_tokens(local_part)
    IN  [ display |-> Lower(display),
          sender_email |-> sender_email,
          domain |-> domain,
          sender_token_joined |-> Join(token_parts) ]

-----------------------------------------------------------------------------
(* classifier.py: scoring, junk detection, priority *)

InList(x, list) == \E i \in 1..Len(list) : list[i] = x

\* _operational_candidates that skips Junk and Archive only
RECURSIVE _operational_candidates_KeepsOperational(_)
_operational_candidates_KeepsOperational(categories) ==
    IF categories = <<>> THEN <<>>
    ELSE (IF Head(categories) \notin {SPECIAL_CATEGORY_JUNK, SPECIAL_CATEGORY_ARCHIVE}
          THEN <<Head(categories)>> ELSE <<>>)
         \o _operational_candidates_KeepsOperational(Tail(categories))

RECURSIVE _operational_candidates(_)
_operational_candidates(categories) ==
    IF categories = <<>> THEN <<>>
    ELSE (IF /\ Head(categories) \notin OPERATIONAL_CATEGORIES_TO_SKIP
             /\ Head(categories) \notin {SPECIAL_CATEGORY_JUNK, SPECIAL_CATEGORY_ARCHIVE}
          THEN <<Head(categories)>> ELSE <<>>)
         \o _operational_candidates(Tail(categories))

_score_candidate(category, parts, subject, body_snippet) ==
    LET term == Lower(NameStr(category))
    IN  (IF \/ _has_boundary_match(parts.display, term)
            \/ _has_boundary_match(parts.sender_email, term)
            \/ _has_boundary_match(parts.sender_token_joined, term)
         THEN W_FROM ELSE 0)
      + (IF _has_boundary_match(parts.domain, term) THEN W_DOMAIN ELSE 0)
      + (IF _has_boundary_match(subject, term) THEN W_SUBJECT ELSE 0)
      + (IF _has_boundary_match(body_snippet, term) THEN W_BODY ELSE 0)

\* f"{subject} {body_snippet}".lower()
Combined(subject, body_snippet) == Lower(subject \o <<" ">> \o body_snippet)

HasUnsubscribe(combined) == Contains(combined, <<"unsubscribe">>)
HasPromo(combined) == \E word \in PROMOTIONAL_WORDS : Contains(combined, word)
HasScam(combined) == \E phrase \in SCAM_PHRASES : Contains(combined, phrase)
LinkCount(combined) == Count(combined, "http") + Count(combined, "www")

\* _is_junk that looks at the body snippet alone
_is_junk_BodyOnly(subject, body_snippet) ==
    LET combined == Lower(body_snippet)
    IN  \/ HasUnsubscribe(combined) /\ HasPromo(combined)
        \/ HasScam(combined)
        \/ LinkCount(combined) >= LINK_DENSITY_THRESHOLD

_is_junk(subject, body_snippet) ==
    LET combined == Combined(subject, body_snippet)
    IN  \/ HasUnsubscribe(combined) /\ HasPromo(combined)
        \/ HasScam(combined)
        \/ LinkCount(combined) >= LINK_DENSITY_THRESHOLD

\* _priority_for_email that looks for a '?' in the subject only
_priority_for_email_SubjectQuestion(subject, body_snippet) ==
    LET combined == Combined(subject, body_snippet)
        has_question == HasAtom(subject, "?")
        has_action_language == \E phrase \in HIGH_PRIORITY_PHRASES : Contains(combined, phrase)
    IN  IF has_question \/ has_action_language THEN "high" ELSE "normal"

_priority_for_email(subject, body_snippet) ==
    LET combined == Combined(subject, body_snippet)
        has_question == HasAtom(subject, "?") \/ HasAtom(body_snippet, "?")
        has_action_language == \E phrase \in HIGH_PRIORITY_PHRASES : Contains(combined, phrase)
    IN  IF has_question \/ has_action_language THEN "high" ELSE "normal"

_validate_required_categories(categories) ==
    /\ InList(SPECIAL_CATEGORY_JUNK, categories)
    /\ InList(SPECIAL_CATEGORY_ARCHIVE, categories)

\* _is_learnable_category without the membership test
_is_learnable_category_AnyCategory(category, categories) ==
    category \notin OPERATIONAL_CATEGORIES_TO_SKIP

_is_learnable_category(category, categories) ==
    /\ InList(category, categories)
    /\ category \notin OPERATIONAL_CATEGORIES_TO_SKIP

-----------------------------------------------------------------------------
(* classifier.py: learned-pattern store *)

\* Optional values: None is the empty tuple, a present value v is <<v>>.
NoValue == <<>>
Some(v) == <<v>>

\* the code points of a category name, for Python's str comparison
CodePoints(name) ==
    CASE name = "" -> <<>>
      [] name = "Archive" -> <<65, 114, 99, 104, 105, 118, 101>>
      [] name = "Finance" -> <<70, 105, 110, 97, 110, 99, 101>>
      [] name = "Inbox" -> <<73, 110, 98, 111, 120>>
      [] name = "Junk" -> <<74, 117, 110, 107>>
      [] name = "Work" -> <<87, 111, 114, 107>>
      [] name = "Drafts" -> <<68, 114, 97, 102, 116, 115>>
      [] name = "Sent" -> <<83, 101, 110, 116>>
      [] name = "Trash" -> <<84, 114, 97, 115, 104>>

RECURSIVE SeqLess(_, _)
SeqLess(a, b) ==
    IF b = <<>> THEN FALSE
    ELSE IF a = <<>> THEN TRUE
    ELSE IF Head(a) # Head(b) THEN Head(a) < Head(b)
    ELSE SeqLess(Tail(a), Tail(b))

\* a < b for two str
StrLess(a, b) == SeqLess(CodePoints(a), CodePoints(b))

\* str(record.get("category", "")).strip()
StripName(name) ==
    CASE name = " Work " -> "Work"
      [] OTHER -> name

EmptyMap == <<>>
EmptyMaps == [domain_map |-> EmptyMap, from_map |-> EmptyMap]

\* by_key = counts.setdefault(key, {}); by_key[category] = by_key.get(category, 0) + 1
AddCount(counts, key, category) ==
    IF key \in DOMAIN counts
    THEN [ counts EXCEPT ![key] =
             IF category \in DOMAIN @ THEN [@ EXCEPT ![category] = @ + 1]
             ELSE @ @@ (category :> 1) ]
    ELSE counts @@ (key :> (category :> 1))

\* The loop over the records (dicts with string fields), from the counts so
\* far: [by_domain, by_from] is category_counts_by_domain and
\* category_counts_by_from.
RECURSIVE CountSamples(_, _, _)
CountSamples(records, categories, counts) ==
    IF records = <<>> THEN counts
    ELSE
    LET record == Head(records)
        category == StripName(record.category)
        sender_email == extract_sender_email(record.from)
        sender_domain == extract_domain(sender_email)
    IN  IF ~_is_learnable_category(category, categories)
        THEN CountSamples(Tail(records), categories, counts)
        ELSE CountSamples(Tail(records), categories,
                 [ by_from |-> IF sender_email # <<>>
                               THEN AddCount(counts.by_from, sender_email, category)
                               ELSE counts.by_from,
                   by_domain |-> IF sender_domain # <<>>
                                 THEN AddCount(counts.by_domain, sender_domain, category)
                                 ELSE counts.by_domain ])

\* the category of the highest count, a tie going to the smallest name
TopCategory_SmallestName(by_category) ==
    CHOOSE c \in DOMAIN by_category :
        \A d \in DOMAIN by_category :
            \/ d = c
            \/ by_category[d] < by_category[c]
            \/ (by_category[d] = by_category[c] /\ StrLess(c, d))

\* max(by_category.items(), key=lambda item: (item[1], item[0]))
TopCategory(by_category) ==
    CHOOSE c \in DOMAIN by_category :
        \A d \in DOMAIN by_category :
            \/ d = c
            \/ by_category[d] < by_category[c]
            \/ (by_category[d] = by_category[c] /\ StrLess(d, c))

RECURSIVE SumOver(_, _)
SumOver(f, keys) ==
    IF keys = {} THEN 0
    ELSE LET k == CHOOSE x \in keys : TRUE IN f[k] + SumOver(f, keys \ {k})

\* the loop that fills from_map
RECURSIVE FromMapOf(_, _)
FromMapOf(by_from, keys) ==
    IF keys = {} THEN EmptyMap
    ELSE
    LET key == CHOOSE k \in keys : TRUE
        top_category == TopCategory(by_from[key])
    IN  (key :> [category |-> top_category, hit_count |-> by_from[key][top_category]])
        @@ FromMapOf(by_from, keys \ {key})

\* the loop that fills domain_map; ratio is kept as the fraction
\* top_count / total_count
RECURSIVE DomainMapOf(_, _)
DomainMapOf(by_domain, keys) ==
    IF keys = {} THEN EmptyMap
    ELSE
    LET key == CHOOSE k \in keys : TRUE
        top_category == TopCategory(by_domain[key])
    IN  (key :> [ category |-> top_category,
                  top_count |-> by_domain[key][top_category],
                  total_count |-> SumOver(by_domain[key], DOMAIN by_domain[key]) ])
        @@ DomainMapOf(by_domain, keys \ {key})

MapsOf(counts) ==
    [ domain_map |-> DomainMapOf(counts.by_domain, DOMAIN counts.by_domain),
      from_map |-> FromMapOf(counts.by_from, DOMAIN counts.by_from) ]

NoCounts == [by_from |-> EmptyMap, by_domain |-> EmptyMap]

\* records is a list
_build_maps_from_sample_records(records, categories) ==
    MapsOf(CountSamples(records, categories, NoCounts))

\* file is [state, records]: the samples file is missing, is not JSON, holds
\* JSON that is not a list, or holds the list records
load_samples_map(file, categories) ==
    IF file.state # "list" THEN EmptyMaps
    ELSE MapsOf(CountSamples(file.records, categories, NoCounts))

\* _load_learned_maps that reuses whatever maps are cached
_load_learned_maps_AnyKey(categories, samples, cache, file) ==
    IF samples # NoValue
    THEN [ maps |-> _build_maps_from_sample_records(samples[1], categories),
           cache |-> cache, loaded |-> FALSE ]
    ELSE IF cache.domain_map # NoValue /\ cache.from_map # NoValue
    THEN [ maps |-> [domain_map |-> cache.domain_map[1], from_map |-> cache.from_map[1]],
           cache |-> cache, loaded |-> FALSE ]
    ELSE LET built == load_samples_map(file, categories)
         IN  [ maps |-> built,
               cache |-> [ key |-> Some(categories),
                           domain_map |-> Some(built.domain_map),
                           from_map |-> Some(built.from_map) ],
               loaded |-> TRUE ]

\* cache is [key, domain_map, from_map], each None or present.  The result is
\* the maps, the cache afterwards, and whether the file was loaded.
_load_learned_maps(categories, samples, cache, file) ==
    IF samples # NoValue
    THEN [ maps |-> _build_maps_from_sample_records(samples[1], categories),
           cache |-> cache, loaded |-> FALSE ]
    ELSE IF /\ cache.domain_map # NoValue
            /\ cache.from_map # NoValue
            /\ cache.key = Some(categories)
    THEN [ maps |-> [domain_map |-> cache.domain_map[1], from_map |-> cache.from_map[1]],
           cache |-> cache, loaded |-> FALSE ]
    ELSE LET built == load_samples_map(file, categories)
         IN  [ maps |-> built,
               cache |-> [ key |-> Some(categories),
                           domain_map |-> Some(built.domain_map),
                           from_map |-> Some(built.from_map) ],
               loaded |-> TRUE ]

-----------------------------------------------------------------------------
(* classifier.py: label_email *)

\* scored.sort(key=lambda item: item[1], reverse=True): stable, so an item
\* goes behind every item of at least its score that came before it
RECURSIVE InsertByScore(_, _)
InsertByScore(item, sorted) ==
    IF sorted = <<>> THEN <<item>>
    ELSE IF Head(sorted).score >= item.score
         THEN <<Head(sorted)>> \o InsertByScore(item, Tail(sorted))
         ELSE <<item>> \o sorted

RECURSIVE SortByScore(_, _)
SortByScore(items, sorted) ==
    IF items = <<>> THEN sorted
    ELSE SortByScore(Tail(items), InsertByScore(Head(items), sorted))

\* _top_candidates_summary(scored)
_top_candidates_summary(scored) ==
    SubSeq(scored, 1, IF Len(scored) < 3 THEN Len(scored) ELSE 3)

Raised(error, cache) ==
    [ outcome |-> "raised", error |-> error, category |-> "", priority |-> "",
      method |-> "", confidence |-> "", path |-> "", top_candidates |-> <<>>,
      consulted |-> FALSE, loaded |-> FALSE, maps |-> NoValue, cache |-> cache ]

Returned(category, priority, method, confidence, path, top, consulted, loaded, maps, cache) ==
    [ outcome |-> "returned", error |-> "", category |-> category, priority |-> priority,
      method |-> method, confidence |-> confidence, path |-> path, top_candidates |-> top,
      consulted |-> consulted, loaded |-> loaded, maps |-> maps, cache |-> cache ]

\* the list comprehension that scores the candidates
RECURSIVE ScoreAll(_, _, _, _)
ScoreAll(candidates, parts, subject, body_snippet) ==
    IF candidates = <<>> THEN <<>>
    ELSE << [ name |-> Head(candidates),
              score |-> _score_candidate(Head(candidates), parts, subject, body_snippet) ] >>
         \o ScoreAll(Tail(candidates), parts, subject, body_snippet)

\* the fallback without the margin test
KeywordFallback_NoMargin(parts, subject, body_snippet, categories, learned) ==
    LET candidates == _operational_candidates(categories)
        scored == SortByScore(ScoreAll(candidates, parts, subject, body_snippet), <<>>)
        best_category == IF scored # <<>> THEN scored[1].name ELSE SPECIAL_CATEGORY_ARCHIVE
        best_score == IF scored # <<>> THEN scored[1].score ELSE 0
        low_confidence == best_score < MIN_CATEGORY_SCORE
        selected_category == IF low_confidence THEN SPECIAL_CATEGORY_ARCHIVE ELSE best_category
        confidence == IF low_confidence THEN "low" ELSE "high"
        priority == _priority_for_email(subject, body_snippet)
    IN  IF ~InList(selected_category, categories)
        THEN Raised("Classifier selected unknown category", learned.cache)
        ELSE Returned(selected_category, priority, "heuristic", confidence, "fallback",
                      _top_candidates_summary(scored), TRUE, learned.loaded,
                      Some(learned.maps), learned.cache)

\* The keyword-scoring fallback, lines 400-463.
KeywordFallback(parts, subject, body_snippet, categories, learned) ==
    LET candidates == _operational_candidates(categories)
        scored == SortByScore(ScoreAll(candidates, parts, subject, body_snippet), <<>>)
        best_category == IF scored # <<>> THEN scored[1].name ELSE SPECIAL_CATEGORY_ARCHIVE
        best_score == IF scored # <<>> THEN scored[1].score ELSE 0
        second_best_score == IF Len(scored) > 1 THEN scored[2].score ELSE 0
        low_confidence ==
            \/ best_score < MIN_CATEGORY_SCORE
            \/ (best_score - second_best_score) < MIN_CATEGORY_MARGIN
        selected_category == IF low_confidence THEN SPECIAL_CATEGORY_ARCHIVE ELSE best_category
        confidence == IF low_confidence THEN "low" ELSE "high"
        priority == _priority_for_email(subject, body_snippet)
    IN  IF ~InList(selected_category, categories)
        THEN Raised("Classifier selected unknown category", learned.cache)
        ELSE IF priority \notin ALLOWED_PRIORITIES
        THEN Raised("Classifier selected invalid priority", learned.cache)
        ELSE Returned(selected_category, priority, "heuristic", confidence, "fallback",
                      _top_candidates_summary(scored), TRUE, learned.loaded,
                      Some(learned.maps), learned.cache)

\* the overrides with the domain entry looked up before the sender entry
AfterJunk_DomainFirst(parts, subject, body_snippet, categories, samples, cache, file) ==
    LET learned == _load_learned_maps(categories, samples, cache, file)
        from_map == learned.maps.from_map
        domain_map == learned.maps.domain_map
        from_hit ==
            /\ parts.sender_email \in DOMAIN from_map
            /\ from_map[parts.sender_email].hit_count >= MIN_FROM_HITS
        domain_hit ==
            /\ parts.domain \in DOMAIN domain_map
            /\ domain_map[parts.domain].total_count >= MIN_DOMAIN_HITS
            /\ domain_map[parts.domain].top_count * MIN_DOMAIN_RATIO_DEN
                   >= MIN_DOMAIN_RATIO_NUM * domain_map[parts.domain].total_count
    IN  IF domain_hit
        THEN Returned(domain_map[parts.domain].category,
                      _priority_for_email(subject, body_snippet),
                      "heuristic+learned_from", "high", "domain", <<>>, TRUE,
                      learned.loaded, Some(learned.maps), learned.cache)
        ELSE IF from_hit
        THEN Returned(from_map[parts.sender_email].category,
                      _priority_for_email(subject, body_snippet),
                      "heuristic+learned_from", "high", "from", <<>>, TRUE,
                      learned.loaded, Some(learned.maps), learned.cache)
        ELSE KeywordFallback(parts, subject, body_snippet, categories, learned)

\* The learned overrides and what follows them, lines 357-463.
AfterJunk(parts, subject, body_snippet, categories, samples, cache, file) ==
    LET learned == _load_learned_maps(categories, samples, cache, file)
        from_map == learned.maps.from_map
        domain_map == learned.maps.domain_map
        from_hit ==
            /\ parts.sender_email \in DOMAIN from_map
            /\ from_map[parts.sender_email].hit_count >= MIN_FROM_HITS
        domain_hit ==
            /\ parts.domain \in DOMAIN domain_map
            /\ domain_map[parts.domain].total_count >= MIN_DOMAIN_HITS
            /\ domain_map[parts.domain].top_count * MIN_DOMAIN_RATIO_DEN
                   >= MIN_DOMAIN_RATIO_NUM * domain_map[parts.domain].total_count
    IN  IF from_hit
        THEN Returned(from_map[parts.sender_email].category,
                      _priority_for_email(subject, body_snippet),
                      "heuristic+learned_from", "high", "from", <<>>, TRUE,
                      learned.loaded, Some(learned.maps), learned.cache)
        ELSE IF domain_hit
        THEN Returned(domain_map[parts.domain].category,
                      _priority_for_email(subject, body_snippet),
                      "heuristic+learned_from", "high", "domain", <<>>, TRUE,
                      learned.loaded, Some(learned.maps), learned.cache)
        ELSE KeywordFallback(parts, subject, body_snippet, categories, learned)

\* label_email whose junk branch takes its priority from the priority rule
label_email_JunkPriority(mail, categories, samples, cache, file) ==
    IF ~_validate_required_categories(categories)
    THEN Raised("Required category missing from categories.json", cache)
    ELSE
    LET parts == _extract_sender_parts(mail.from)
        subject == Lower(mail.subject)
        body_snippet == Lower(Slice(mail.body, BODY_SNIPPET_CHARS))
    IN  IF _is_junk(subject, body_snippet)
        THEN Returned(SPECIAL_CATEGORY_JUNK, _priority_for_email(subject, body_snippet),
                      "heuristic", "high", "junk",
                      <<[name |-> "Junk:override", score |-> 0]>>,
                      FALSE, FALSE, NoValue, cache)
        ELSE AfterJunk(parts, subject, body_snippet, categories, samples, cache, file)

\* label_email(email, categories, samples) called with the cache and the
\* samples file as they are; the cache afterwards is part of the result.
label_email(mail, categories, samples, cache, file) ==
    IF ~_validate_required_categories(categories)
    THEN Raised("Required category missing from categories.json", cache)
    ELSE
    LET parts == _extract_sender_parts(mail.from)
        subject == Lower(mail.subject)
        body_snippet == Lower(Slice(mail.body, BODY_SNIPPET_CHARS))
    IN  IF _is_junk(subject, body_snippet)
        THEN Returned(SPECIAL_CATEGORY_JUNK, "normal", "heuristic", "high", "junk",
                      <<[name |-> "Junk:override", score |-> 0]>>,
                      FALSE, FALSE, NoValue, cache)
        ELSE AfterJunk(parts, subject, body_snippet, categories, samples, cache, file)

-----------------------------------------------------------------------------
(* Inputs *)

MaxBodyWords == 2
MaxSamples == 5

\* From headers
FromBilling == <<"billing", "@", "acme", ".", "com">>
FromFinanceTeam ==
    <<"Finance", "Team", " ", "<", "Billing", "@", "Acme", ".", "com", ">">>
FromOther == <<"\"", "Other", "\"", " ", "<", "other", "@", "acme", ".", "com", ">", " ">>
FromFinanceAtWork == <<"finance", "@", "work", ".", "org">>
FromNoAddress == <<"Finance", " ", "Work">>

\* Category lists
Full == <<"Junk", "Archive", "Finance", "Work">>
FullReordered == <<"Archive", "Work", "Finance", "Junk">>
NoFinance == <<"Junk", "Archive", "Work", "Inbox">>
OnlySpecial == <<"Junk", "Archive">>
NoJunk == <<"Archive", "Finance">>
NoArchive == <<"Junk", "Finance", "Work">>

\* Historical sample records, in a fixed order
SampleRecords ==
    << [from |-> <<"Billing", " ", "<", "Billing", "@", "Acme", ".", "com", ">">>,
        category |-> "Finance"],
       [from |-> FromBilling, category |-> "Work"],
       [from |-> FromOther, category |-> " Work "],
       [from |-> FromBilling, category |-> "Inbox"] >>

\* The sample lists of at most MaxSamples records whose records come in the
\* order of SampleRecords (one list for each multiset of records).
SampleLists ==
    LET IndexLists == UNION { [1..n -> 1..Len(SampleRecords)] : n \in 0..MaxSamples }
        Sorted == { l \in IndexLists : \A i \in 1..(Len(l) - 1) : l[i] <= l[i + 1] }
    IN  { [i \in 1..Len(l) |-> SampleRecords[l[i]]] : l \in Sorted }

\* billing@acme.com: Finance twice; acme.com: Work 3 of 5
BillingHistory ==
    <<SampleRecords[1], SampleRecords[1], SampleRecords[3], SampleRecords[3],
      SampleRecords[3]>>

BodyWords ==
    { <<"unsubscribe">>, <<"sale">>, <<"urgent", " ", "action", " ", "required">>,
      <<"http", "://", "www">>, <<"deadline">>, <<"?">>, <<Pad>> }

Bodies == { Join(ws) : ws \in UNION { [1..n -> BodyWords] : n \in 0..MaxBodyWords } }

Subjects ==
    { <<"hello">>, <<"sale">>, <<"?">>, <<"Finance">>, <<"Unsubscribe">> }

Mail(from, subject, body) == [from |-> from, subject |-> subject, body |-> body]

\* emails that vary in their text
TextEmails ==
    { Mail(FromBilling, sub, b) : sub \in Subjects, b \in Bodies }

\* emails that vary in their sender
SenderEmails ==
    { Mail(FromBilling, <<"hello">>, <<"hello">>),
      Mail(FromFinanceTeam, <<"Work", " ", "?">>, <<"work">>),
      Mail(FromOther, <<"Finance">>, <<"finance", " ", "deadline">>),
      Mail(FromFinanceAtWork, <<"hello">>, <<"confirm", "ation", " ", "?">>),
      Mail(FromNoAddress, <<"hello">>, <<"hello">>) }

\* An email that names a category in its sender display, its subject and its
\* body, alone or next to Work, and a history of MIN_DOMAIN_HITS samples of
\* billing@acme.com filed under that category, alone or after two Work samples.
WithOperational == <<"Junk", "Archive", "Inbox", "Drafts", "Sent", "Trash", "Work">>

NamingEmails ==
    { Mail(<<name, " ", "<", "billing", "@", "acme", ".", "com", ">">>,
           <<name>> \o rest, <<LowerAtom(name)>>) :
        name \in OPERATIONAL_CATEGORIES_TO_SKIP, rest \in {<<>>, <<" ", "Work">>} }

FiledUnder(name) == [i \in 1..MIN_DOMAIN_HITS |-> [from |-> FromBilling, category |-> name]]

FiledHistories ==
    {<<>>}
    \cup { FiledUnder(name) : name \in OPERATIONAL_CATEGORIES_TO_SKIP }
    \cup { <<SampleRecords[2], SampleRecords[2]>> \o FiledUnder(name) :
             name \in OPERATIONAL_CATEGORIES_TO_SKIP }

FileStates == {"list", "missing", "not JSON", "not a list"}

Scenario(m, h, f, lists) == [email |-> m, history |-> h, fileState |-> f, lists |-> lists]

\* Four families: emails that vary in their text, under a fixed history;
\* emails that vary in their sender, under every sample list; the states of
\* the samples file; and emails and samples that name the categories of
\* OPERATIONAL_CATEGORIES_TO_SKIP.
Scenarios ==
    { Scenario(m, h, "list", {Full, NoFinance}) :
        m \in TextEmails, h \in {<<>>, BillingHistory} }
    \cup { Scenario(m, h, "list", {Full, NoFinance}) :
             m \in SenderEmails, h \in SampleLists }
    \cup { Scenario(m, BillingHistory, f,
                     {Full, FullReordered, OnlySpecial, NoJunk, NoArchive}) :
             m \in SenderEmails, f \in FileStates }
    \cup { Scenario(m, h, "list", {Full, WithOperational}) :
             m \in NamingEmails, h \in FiledHistories }

-----------------------------------------------------------------------------
(* The classifier called directly *)

NoRun == [pc |-> "none"]
NoMain == [pc |-> "none"]

Cache == [key |-> cacheKey, domain_map |-> domainCache, from_map |-> fromCache]
SamplesFile == [state |-> fileState, records |-> history]

Init ==
    /\ \E sc \in Scenarios :
          /\ email = sc.email
          /\ history = sc.history
          /\ fileState = sc.fileState
          /\ categoryLists = sc.lists
    /\ cacheKey = NoValue
    /\ domainCache = NoValue
    /\ fromCache = NoValue
    /\ call = NoValue
    /\ run = NoRun
    /\ main = NoMain

\* label_email(email, categories, samples): the module globals take the
\* cache of the result
Label(categories, samples) ==
    \E result \in {label_email(email, categories, samples, Cache, SamplesFile)} :
        /\ call' = Some([ categories |-> categories, samples |-> samples,
                          before |-> Cache, result |-> result ])
        /\ cacheKey' = result.cache.key
        /\ domainCache' = result.cache.domain_map
        /\ fromCache' = result.cache.from_map
        /\ UNCHANGED <<email, history, fileState, categoryLists, run, main>>

\* label_email(email, categories)
LabelEmail == \E categories \in categoryLists : Label(categories, NoValue)

\* label_email(email, categories, samples)
LabelEmailWithSamples == \E categories \in categoryLists : Label(categories, Some(history))

Next == LabelEmail \/ LabelEmailWithSamples

Spec == Init /\ [][Next]_vars

-----------------------------------------------------------------------------
(* main.py, validation.py, io_utils.py: the batch run *)

MaxBatch == 2

\* A file is [kind, items]: kind is "missing", "not JSON", "object" (JSON that
\* is not a list) or "list", and items is the list.
JsonList(items) == [kind |-> "list", items |-> items]
NotAList(kind) == [kind |-> kind, items |-> <<>>]

\* read_json raises for a missing file and for text that is not JSON
read_json_raises(file) == file.kind \in {"missing", "not JSON"}

\* validate_categories raises (entries are strings in the model)
validate_categories_raises(doc) == doc.kind # "list" \/ doc.items = <<>>

\* validate_email_record raises: the record holds the six fields as strings,
\* and a field other than category and priority may not be empty
validate_email_record_raises(record) ==
    \/ record.date = <<>>
    \/ record.from = <<>>
    \/ record.subject = <<>>
    \/ record.body = <<>>

validate_input_emails_raises(doc) ==
    \/ doc.kind # "list"
    \/ \E i \in 1..Len(doc.items) : validate_email_record_raises(doc.items[i])

NonLabelFields(record) ==
    [date |-> record.date, from |-> record.from, subject |-> record.subject,
     body |-> record.body]

\* enforce_only_labels_changed raises; the key sets of the two records are equal
enforce_only_labels_changed_raises(original, labeled) ==
    \/ NonLabelFields(original) # NonLabelFields(labeled)
    \/ labeled.category = ""
    \/ labeled.priority = ""

InputRecord(from, subject, body, category, priority) ==
    [date |-> <<"d">>, from |-> from, subject |-> subject, priority |-> priority,
     category |-> category, body |-> body]

RunEmails ==
    { InputRecord(FromBilling, <<"hello">>, <<"hello">>, "Inbox", ""),
      InputRecord(FromFinanceTeam, <<"sale">>, <<"Unsubscribe">>, "", "high"),
      InputRecord(FromOther, <<"?">>, <<"hello">>, "Archive", "normal"),
      InputRecord(FromBilling, <<"hello">>, <<>>, "", "") }

WithEmptyName == <<"Junk", "Archive", "Finance", "">>

CategoryFiles ==
    { JsonList(c) : c \in {Full, WithEmptyName, NoJunk, NoArchive, <<>>} }
    \cup { NotAList("object"), NotAList("missing") }

InputFiles ==
    { JsonList(b) : b \in UNION { [1..n -> RunEmails] : n \in 0..MaxBatch } }
    \cup { NotAList("object"), NotAList("not JSON") }

\* other@acme.com: the empty category twice; billing@acme.com: Finance twice
RunHistory ==
    << [from |-> FromOther, category |-> ""], [from |-> FromOther, category |-> ""],
       SampleRecords[1], SampleRecords[1] >>

NoEmail == Mail(<<>>, <<>>, <<>>)

RunInit ==
    /\ email = NoEmail
    /\ categoryLists = {}
    /\ call = NoValue
    /\ history = RunHistory
    /\ fileState \in {"list", "missing"}
    /\ cacheKey = NoValue
    /\ domainCache = NoValue
    /\ fromCache = NoValue
    /\ \E cf \in CategoryFiles, inf \in InputFiles :
          run = [ pc |-> "start", categories_file |-> cf, input_file |-> inf,
                  categories |-> <<>>, emails |-> <<>>, index |-> 1,
                  labeled_emails |-> <<>>, output |-> NoValue, writes |-> 0,
                  error |-> "" ]
    /\ main = [ pc |-> "try", status |-> NoValue, escaped |-> "",
                detail_traced |-> FALSE, printed |-> FALSE ]

Failed(error) == [run EXCEPT !.pc = "failed", !.error = error]

\* run, lines 23-33: read and validate the two files
RunLoad ==
    /\ run.pc = "start"
    /\ run' = IF read_json_raises(run.categories_file)
                 \/ validate_categories_raises(run.categories_file)
              THEN Failed("categories.json")
              ELSE IF read_json_raises(run.input_file)
                      \/ validate_input_emails_raises(run.input_file)
              THEN Failed("input file")
              ELSE [ run EXCEPT !.pc = "loop",
                                !.categories = run.categories_file.items,
                                !.emails = run.input_file.items ]
    /\ UNCHANGED <<email, history, fileState, cacheKey, domainCache, fromCache, call,
                   categoryLists, main>>

\* the loop body writing the output file after every record
AfterLabel_WritesEachRecord(result) ==
    LET original == run.emails[run.index]
        updated_email == [ original EXCEPT !.category = result.category,
                                           !.priority = result.priority ]
    IN  IF result.outcome = "raised" THEN Failed(result.error)
        ELSE IF enforce_only_labels_changed_raises(original, updated_email)
        THEN Failed("Labeled field must be a non-empty string")
        ELSE [ run EXCEPT !.labeled_emails = Append(run.labeled_emails, updated_email),
                          !.index = run.index + 1,
                          !.output = Some(Append(run.labeled_emails, updated_email)) ]

\* the run after one pass of the loop body, lines 35-44, for the result of
\* label_email
AfterLabel(result) ==
    LET original == run.emails[run.index]
        updated_email == [ original EXCEPT !.category = result.category,
                                           !.priority = result.priority ]
    IN  IF result.outcome = "raised" THEN Failed(result.error)
        ELSE IF enforce_only_labels_changed_raises(original, updated_email)
        THEN Failed("Labeled field must be a non-empty string")
        ELSE [ run EXCEPT !.labeled_emails = Append(run.labeled_emails, updated_email),
                          !.index = run.index + 1 ]

\* run, lines 34-44: one pass of the loop
RunLabelNext ==
    /\ run.pc = "loop"
    /\ run.index <= Len(run.emails)
    /\ \E result \in { label_email(run.emails[run.index], run.categories, NoValue, Cache,
                                   SamplesFile) } :
          /\ run' = AfterLabel(result)
          /\ cacheKey' = result.cache.key
          /\ domainCache' = result.cache.domain_map
          /\ fromCache' = result.cache.from_map
    /\ UNCHANGED <<email, history, fileState, call, categoryLists, main>>

\* run, lines 46-51: the loop is over, the output file is written
RunWrite ==
    /\ run.pc = "loop"
    /\ run.index > Len(run.emails)
    /\ run' = [ run EXCEPT !.pc = "done",
                           !.output = Some(run.labeled_emails),
                           !.writes = run.writes + 1 ]
    /\ UNCHANGED <<email, history, fileState, cacheKey, domainCache, fromCache, call,
                   categoryLists, main>>

RunNext == RunLoad \/ RunLabelNext \/ RunWrite

RunSpec == RunInit /\ [][RunNext]_vars

-----------------------------------------------------------------------------
(* main.py: main, after parse_args, around run *)

\* the names bound in main.py's module namespace: its imports and its two
\* functions
MainGlobals ==
    { "sys", "argparse", "Path", "CATEGORIES_FILE", "label_email", "make_output_path",
      "read_json", "write_json", "_trace", "enforce_only_labels_changed",
      "validate_categories", "validate_input_emails", "run", "main" }

\* evaluating a global name raises NameError unless the module binds it (none
\* of the names main uses is a builtin other than print and Exception)
NameDefined(name) == name \in MainGlobals

\* run(args.input_file) returned: the try block is left, main returns 0
MainReturn ==
    /\ main.pc = "try"
    /\ run.pc = "done"
    /\ main' = [main EXCEPT !.pc = "returned", !.status = Some(0)]
    /\ UNCHANGED <<email, history, fileState, cacheKey, domainCache, fromCache, call,
                   categoryLists, run>>

\* run raised an Exception: the handler evaluates traceback.format_exc() for
\* the argument of _trace, then prints and returns 1.  A NameError raised in
\* the handler leaves main.
MainExcept ==
    /\ main.pc = "try"
    /\ run.pc = "failed"
    /\ main' = IF NameDefined("traceback")
               THEN [main EXCEPT !.pc = "returned", !.status = Some(1),
                                 !.detail_traced = TRUE, !.printed = TRUE]
               ELSE [main EXCEPT !.pc = "raised", !.escaped = "NameError"]
    /\ UNCHANGED <<email, history, fileState, cacheKey, domainCache, fromCache, call,
                   categoryLists, run>>

MainNext == RunNext \/ MainReturn \/ MainExcept

MainSpec == RunInit /\ [][MainNext]_vars

-----------------------------------------------------------------------------
(* Properties of label_email *)

Called == call # NoValue
Args == call[1]
Result == call[1].result
Returned_ == Called /\ Result.outcome = "returned"

\* the texts label_email works on, as the claims describe them
SubjectLower == Lower(email.subject)
SnippetLower == Lower(Slice(email.body, BODY_SNIPPET_CHARS))
SnippetText == Combined(email.subject, Slice(email.body, BODY_SNIPPET_CHARS))
WholeText == Lower(email.subject \o <<" ">> \o email.body)

RECURSIVE StrLen(_)
StrLen(s) == IF s = <<>> THEN 0 ELSE AtomLen(Head(s)) + StrLen(Tail(s))

JunkMatch(text) ==
    \/ Contains(text, <<"unsubscribe">>) /\ (\E w \in PROMOTIONAL_WORDS : Contains(text, w))
    \/ \E p \in SCAM_PHRASES : Contains(text, p)
    \/ Count(text, "http") + Count(text, "www") >= 3

Urgent ==
    \/ HasAtom(SubjectLower, "?")
    \/ HasAtom(SnippetLower, "?")
    \/ \E p \in HIGH_PRIORITY_PHRASES : Contains(SnippetText, p)

HasRequired(categories) == InList("Junk", categories) /\ InList("Archive", categories)

Sender == extract_sender_email(email.from)
SenderDomain == extract_domain(Sender)

FromPasses(maps) ==
    /\ Sender \in DOMAIN maps.from_map
    /\ maps.from_map[Sender].hit_count >= MIN_FROM_HITS

DomainPasses(maps) ==
    /\ SenderDomain \in DOMAIN maps.domain_map
    /\ maps.domain_map[SenderDomain].total_count >= MIN_DOMAIN_HITS
    /\ maps.domain_map[SenderDomain].top_count * MIN_DOMAIN_RATIO_DEN
           >= MIN_DOMAIN_RATIO_NUM * maps.domain_map[SenderDomain].total_count

\* C1: when junk detection matches on the lower-cased subject plus body
\* snippet and the category list holds Junk and Archive, label_email returns
\* Junk, normal, high, heuristic, whatever the urgency of the text and the
\* learned entries are, and the learned-pattern store is not consulted: no
\* maps are loaded and the cache is left as it was.
C1_JunkShortCircuits ==
    (Called /\ HasRequired(Args.categories) /\ JunkMatch(SnippetText))
    => /\ Result.outcome = "returned"
       /\ Result.category = "Junk"
       /\ Result.priority = "normal"
       /\ Result.confidence = "high"
       /\ Result.method = "heuristic"
       /\ Result.maps = NoValue
       /\ ~Result.loaded
       /\ Cache = Args.before

\* a junk email with urgent text whose sender passes the learned-sender
\* threshold in the samples passed to the call
C1_Witness ==
    /\ Called /\ HasRequired(Args.categories) /\ JunkMatch(SnippetText)
    /\ Urgent
    /\ Args.samples # NoValue
    /\ FromPasses(_build_maps_from_sample_records(history, Args.categories))
    /\ Result.category = "Junk"

\* the scores the fallback works on
Candidates == _operational_candidates(Args.categories)
ScoreOf(category) ==
    _score_candidate(category, _extract_sender_parts(email.from), SubjectLower, SnippetLower)
MaxOf(numbers) == IF numbers = {} THEN 0 ELSE CHOOSE n \in numbers : \A m \in numbers : m <= n
BestScore == MaxOf({ScoreOf(Candidates[i]) : i \in 1..Len(Candidates)})
TopIndex == CHOOSE i \in 1..Len(Candidates) : ScoreOf(Candidates[i]) = BestScore
SecondScore ==
    IF Len(Candidates) < 2 THEN 0
    ELSE MaxOf({ScoreOf(Candidates[i]) : i \in (1..Len(Candidates)) \ {TopIndex}})
Strong == BestScore >= 3 /\ BestScore - SecondScore >= 2

\* C2: in the keyword-scoring fallback the result is the top-scored candidate
\* with confidence high exactly when best >= 3 and best - second >= 2, and
\* Archive with confidence low in every other case.
C2_FallbackThresholds ==
    (Returned_ /\ Result.path = "fallback")
    => IF Strong
       THEN Result.category = Candidates[TopIndex] /\ Result.confidence = "high"
       ELSE Result.category = "Archive" /\ Result.confidence = "low"

\* a fallback whose best score passes the floor but not the margin
C2_Witness ==
    /\ Returned_ /\ Result.path = "fallback"
    /\ BestScore >= 3 /\ BestScore - SecondScore < 2
    /\ Result.category = "Archive"

\* a fallback that selects the top candidate
C2_WitnessSelected ==
    /\ Returned_ /\ Result.path = "fallback"
    /\ Strong /\ SecondScore > 0
    /\ Result.confidence = "high"

\* C3: for a non-junk email the cascade is ordered: a learned sender entry
\* that passes MIN_FROM_HITS decides the category; otherwise a learned domain
\* entry that passes MIN_DOMAIN_HITS and MIN_DOMAIN_RATIO decides it; the
\* keyword-scoring fallback is used only when neither applies.
C3_CascadeOrder ==
    (Called /\ HasRequired(Args.categories) /\ ~JunkMatch(SnippetText))
    => /\ Result.maps # NoValue
       /\ LET maps == Result.maps[1]
          IN  IF FromPasses(maps)
              THEN /\ Result.outcome = "returned"
                   /\ Result.path = "from"
                   /\ Result.category = maps.from_map[Sender].category
              ELSE IF DomainPasses(maps)
              THEN /\ Result.outcome = "returned"
                   /\ Result.path = "domain"
                   /\ Result.category = maps.domain_map[SenderDomain].category
              ELSE Result.path = "fallback"

\* the sender entry wins over a domain entry that passes its thresholds and
\* names another category, and over a keyword score that would select
C3_Witness ==
    /\ Called /\ HasRequired(Args.categories) /\ ~JunkMatch(SnippetText)
    /\ Result.maps # NoValue
    /\ FromPasses(Result.maps[1])
    /\ DomainPasses(Result.maps[1])
    /\ Result.maps[1].domain_map[SenderDomain].category
           # Result.maps[1].from_map[Sender].category
    /\ Result.category = Result.maps[1].from_map[Sender].category

\* C4: a call of label_email that returns, returns a category of the category
\* list it was passed and a priority in {high, normal}.
C4_ResultInCategorySet ==
    Returned_
    => /\ InList(Result.category, Args.categories)
       /\ Result.priority \in {"high", "normal"}

\* a learned override taken from maps that an earlier call cached
C4_Witness ==
    /\ Returned_
    /\ Result.path \in {"from", "domain"}
    /\ Args.samples = NoValue
    /\ ~Result.loaded
    /\ InList(Result.category, Args.categories)

\* the records a call learns from, and the samples counted for a key
LearnedFrom ==
    IF Args.samples # NoValue THEN history
    ELSE IF fileState = "list" THEN history ELSE <<>>
UsableSamples ==
    { i \in 1..Len(LearnedFrom) :
        /\ InList(StripName(LearnedFrom[i].category), Args.categories)
        /\ StripName(LearnedFrom[i].category) \notin {"Inbox", "Drafts", "Sent", "Trash"} }
SenderKey(i) == extract_sender_email(LearnedFrom[i].from)
DomainOfSample(i) == extract_domain(SenderKey(i))
SenderCount(key, category) ==
    Cardinality({ i \in UsableSamples :
                    SenderKey(i) = key /\ StripName(LearnedFrom[i].category) = category })
DomainCount(key, category) ==
    Cardinality({ i \in UsableSamples :
                    DomainOfSample(i) = key /\ StripName(LearnedFrom[i].category) = category })
SampleCategories == { StripName(LearnedFrom[i].category) : i \in UsableSamples }

\* entry names a category of the highest count, with that count
Winner(entry, count, CountFor(_, _), key) ==
    /\ count = CountFor(key, entry.category)
    /\ count > 0
    /\ \A c \in SampleCategories : CountFor(key, c) <= count

\* among the categories of the highest count, entry names the smallest / largest
SmallestOfTies(entry, count, CountFor(_, _), key) ==
    \A c \in SampleCategories :
        (CountFor(key, c) = count /\ c # entry.category) => StrLess(entry.category, c)
LargestOfTies(entry, count, CountFor(_, _), key) ==
    \A c \in SampleCategories :
        (CountFor(key, c) = count /\ c # entry.category) => StrLess(c, entry.category)

MapsUsed == Result.maps[1]

\* C7 as stated: the winning category of every sender and every domain is the
\* one of the highest sample count, a tie is broken by the lexicographically
\* smallest name, and the stored count is the winner's count.
C7_TieSmallestName ==
    (Called /\ Result.maps # NoValue)
    => /\ \A key \in DOMAIN MapsUsed.from_map :
            LET e == MapsUsed.from_map[key]
            IN  /\ Winner(e, e.hit_count, SenderCount, key)
                /\ SmallestOfTies(e, e.hit_count, SenderCount, key)
       /\ \A key \in DOMAIN MapsUsed.domain_map :
            LET e == MapsUsed.domain_map[key]
            IN  /\ Winner(e, e.top_count, DomainCount, key)
                /\ SmallestOfTies(e, e.top_count, DomainCount, key)

\* C7 amended: the winning category of every sender and every domain is the
\* one of the highest sample count, a tie is broken by the lexicographically
\* largest name, and the stored count is the winner's count.
C7_TieLargestName ==
    (Called /\ Result.maps # NoValue)
    => /\ DOMAIN MapsUsed.from_map = {SenderKey(i) : i \in UsableSamples} \ {<<>>}
       /\ DOMAIN MapsUsed.domain_map = {DomainOfSample(i) : i \in UsableSamples} \ {<<>>}
       /\ \A key \in DOMAIN MapsUsed.from_map :
            LET e == MapsUsed.from_map[key]
            IN  /\ Winner(e, e.hit_count, SenderCount, key)
                /\ LargestOfTies(e, e.hit_count, SenderCount, key)
       /\ \A key \in DOMAIN MapsUsed.domain_map :
            LET e == MapsUsed.domain_map[key]
            IN  /\ Winner(e, e.top_count, DomainCount, key)
                /\ LargestOfTies(e, e.top_count, DomainCount, key)
                /\ e.total_count = Cardinality({i \in UsableSamples : DomainOfSample(i) = key})

\* a sender whose two categories have the same highest count of at least 2
C7_Witness ==
    /\ Called /\ Result.maps # NoValue
    /\ \E key \in DOMAIN MapsUsed.from_map :
          /\ MapsUsed.from_map[key].hit_count >= 2
          /\ \E c \in SampleCategories :
                /\ c # MapsUsed.from_map[key].category
                /\ SenderCount(key, c) = MapsUsed.from_map[key].hit_count

\* the cache before the call holds maps built for exactly this category list
CacheHit ==
    /\ Args.before.domain_map # NoValue
    /\ Args.before.from_map # NoValue
    /\ Args.before.key # NoValue
    /\ Len(Args.before.key[1]) = Len(Args.categories)
    /\ \A i \in 1..Len(Args.categories) : Args.before.key[1][i] = Args.categories[i]

\* C8: a call without a sample list uses the maps a fresh build from the
\* sample file gives for the call's category list; it reuses the cached maps
\* exactly when the cached key equals the category list element by element,
\* and rebuilds and caches them otherwise; a call with a sample list uses the
\* maps built from that list and leaves the cache as it was.
C8_CacheCoherence ==
    (Called /\ Result.maps # NoValue)
    => IF Args.samples = NoValue
       THEN /\ MapsUsed = load_samples_map(SamplesFile, Args.categories)
            /\ Result.loaded = ~CacheHit
            /\ CacheHit => Cache = Args.before
            /\ ~CacheHit => Cache = [ key |-> Some(Args.categories),
                                      domain_map |-> Some(MapsUsed.domain_map),
                                      from_map |-> Some(MapsUsed.from_map) ]
       ELSE /\ MapsUsed = _build_maps_from_sample_records(Args.samples[1], Args.categories)
            /\ ~Result.loaded
            /\ Cache = Args.before

\* a call without a sample list that finds maps cached for the same
\* categories in another order, or for other categories, and rebuilds
C8_Witness ==
    /\ Called /\ Result.maps # NoValue
    /\ Args.samples = NoValue
    /\ Args.before.key # NoValue
    /\ ~CacheHit
    /\ Result.loaded
    /\ MapsUsed # [domain_map |-> Args.before.domain_map[1], from_map |-> Args.before.from_map[1]]

\* a call with a sample list while the cache holds other maps
C8_WitnessBypass ==
    /\ Called /\ Result.maps # NoValue
    /\ Args.samples # NoValue
    /\ CacheHit
    /\ MapsUsed # [domain_map |-> Args.before.domain_map[1], from_map |-> Args.before.from_map[1]]

UnsubscribeAndPromo(text) ==
    /\ Contains(text, <<"unsubscribe">>)
    /\ \E w \in PROMOTIONAL_WORDS : Contains(text, w)

\* C9 as stated: an email whose subject combined with its whole body holds
\* 'unsubscribe' and a promotional word is labeled Junk, normal, for bodies of
\* any length (the category list holding Junk and Archive).
C9_WholeBodyJunk ==
    (Called /\ HasRequired(Args.categories) /\ UnsubscribeAndPromo(WholeText))
    => /\ Result.outcome = "returned"
       /\ Result.category = "Junk"
       /\ Result.priority = "normal"

\* C9 amended: an email whose subject combined with the first
\* BODY_SNIPPET_CHARS characters of its body holds 'unsubscribe' and a
\* promotional word is labeled Junk, normal, whatever else the email holds
\* (the category list holding Junk and Archive).
C9_SnippetJunk ==
    (Called /\ HasRequired(Args.categories) /\ UnsubscribeAndPromo(SnippetText))
    => /\ Result.outcome = "returned"
       /\ Result.category = "Junk"
       /\ Result.priority = "normal"

\* a body longer than the snippet, with both words inside the snippet
C9_Witness ==
    /\ Called /\ HasRequired(Args.categories)
    /\ StrLen(email.body) > BODY_SNIPPET_CHARS
    /\ UnsubscribeAndPromo(SnippetText)
    /\ ~(\E p \in SCAM_PHRASES : Contains(SnippetText, p))
    /\ Result.category = "Junk"

\* C10: for an email not classified as Junk the returned priority is high
\* exactly when the subject or the body snippet holds a '?' or the combined
\* lower-cased text holds an urgency phrase, on the sender override, the
\* domain override and the fallback alike.
C10_PriorityRule ==
    (Returned_ /\ Result.path # "junk")
    => /\ Result.path \in {"from", "domain", "fallback"}
       /\ Result.priority = (IF Urgent THEN "high" ELSE "normal")

\* a low-confidence Archive of high priority
C10_Witness ==
    /\ Returned_ /\ Result.path = "fallback"
    /\ Result.confidence = "low"
    /\ Urgent
    /\ Result.priority = "high"

\* a domain override of high priority for a '?' alone
C10_WitnessDomain ==
    /\ Returned_ /\ Result.path = "domain"
    /\ ~(\E p \in HIGH_PRIORITY_PHRASES : Contains(SnippetText, p))
    /\ Result.priority = "high"

\* the four operational-skip names
Operational == {"Inbox", "Drafts", "Sent", "Trash"}

RECURSIVE WithoutOperational(_)
WithoutOperational(records) ==
    IF records = <<>> THEN <<>>
    ELSE (IF StripName(Head(records).category) \in Operational THEN <<>>
          ELSE <<Head(records)>>)
         \o WithoutOperational(Tail(records))

\* C12: label_email never returns Inbox, Drafts, Sent or Trash, on any path,
\* also when the names are in the category list and the samples are filed
\* under them: none of the four is a scored candidate, and the learned maps
\* are those of the samples without the records filed under the four names.
C12_NeverOperational ==
    (Called /\ Returned_) =>
        /\ Result.category \notin Operational
        /\ \A i \in 1..Len(Result.top_candidates) :
              Result.top_candidates[i].name \notin Operational
        /\ Result.maps # NoValue =>
              /\ MapsUsed = _build_maps_from_sample_records(
                                WithoutOperational(LearnedFrom), Args.categories)
              /\ \A key \in DOMAIN MapsUsed.from_map :
                    MapsUsed.from_map[key].category \notin Operational
              /\ \A key \in DOMAIN MapsUsed.domain_map :
                    MapsUsed.domain_map[key].category \notin Operational

\* a fallback call whose category list holds a skipped name that the email
\* names strongly enough to win the scoring, were the name a candidate
C12_Witness ==
    /\ Called /\ Returned_
    /\ Result.path = "fallback"
    /\ \E name \in Operational :
          /\ InList(name, Args.categories)
          /\ _score_candidate(name, _extract_sender_parts(email.from), SubjectLower,
                              SnippetLower) >= MIN_CATEGORY_SCORE + MIN_CATEGORY_MARGIN
          /\ \A i \in 1..Len(Result.top_candidates) : Result.top_candidates[i].score = 0

\* a call whose sender has MIN_FROM_HITS samples filed under a skipped name
\* that is in the category list
C12_WitnessLearned ==
    /\ Called /\ Returned_
    /\ Result.maps # NoValue
    /\ \E name \in Operational :
          /\ InList(name, Args.categories)
          /\ Cardinality({ i \in 1..Len(LearnedFrom) :
                             /\ SenderKey(i) = Sender
                             /\ StripName(LearnedFrom[i].category) = name })
                >= MIN_FROM_HITS

-----------------------------------------------------------------------------
(* Properties of run *)

Running == run.pc \in {"loop", "done", "failed"}

\* what label_email gives for the i-th record of the batch
LabelOf(i) ==
    label_email(run.emails[i], run.categories, NoValue,
                [key |-> NoValue, domain_map |-> NoValue, from_map |-> NoValue],
                SamplesFile)

\* record i of a list is input record i with the label of input record i
LabeledInOrder(list) ==
    \A i \in 1..Len(list) :
        /\ NonLabelFields(list[i]) = NonLabelFields(run.input_file.items[i])
        /\ list[i].category = LabelOf(i).category
        /\ list[i].priority = LabelOf(i).priority
        /\ list[i].category # "" /\ list[i].priority # ""

\* C5: the batch is all-or-nothing.  The records are labeled in input order;
\* when the run fails no output file has been written; the file is written
\* once, after every record is labeled, and holds one record for each input
\* record, in input order, that differs from it in category and priority only.
C5_AllOrNothing ==
    /\ run.pc = "loop" =>
          /\ Len(run.labeled_emails) = run.index - 1
          /\ LabeledInOrder(run.labeled_emails)
          /\ run.output = NoValue /\ run.writes = 0
    /\ run.pc \in {"start", "failed"} => run.output = NoValue /\ run.writes = 0
    /\ run.pc = "done" =>
          /\ run.writes = 1
          /\ run.output # NoValue
          /\ Len(run.output[1]) = Len(run.input_file.items)
          /\ LabeledInOrder(run.output[1])

\* a run that fails at its second record, after the first was labeled
C5_Witness ==
    /\ run.pc = "failed"
    /\ run.index = 2
    /\ Len(run.labeled_emails) = 1
    /\ run.output = NoValue

\* a run that wrote two labeled records
C5_WitnessWritten ==
    /\ run.pc = "done"
    /\ Len(run.output[1]) = 2
    /\ run.output[1][1].category # run.output[1][2].category

\* C6: a run whose category list lacks Junk or Archive, on a valid input batch
\* of any length, aborts and writes no output file.
C6_MissingRequiredAborts ==
    ( /\ run.pc # "start"
      /\ run.categories_file.kind = "list"
      /\ run.categories_file.items # <<>>
      /\ ~HasRequired(run.categories_file.items)
      /\ ~validate_input_emails_raises(run.input_file) )
    => /\ run.pc # "done"
       /\ run.output = NoValue
       /\ (run.pc = "failed" \/ run.index = 1)

-----------------------------------------------------------------------------
(* Properties of main *)

MainOver == main.pc \in {"returned", "raised"}

\* C11: when run completes main returns exit status 0; when run raises a
\* validation or labeling failure main writes the detail to the trace, prints
\* the short error message and returns a non-zero exit status, and no
\* exception escapes main.
C11_MainExitBehaviour ==
    MainOver =>
        /\ main.pc = "returned"
        /\ main.escaped = ""
        /\ run.pc = "done" => main.status = Some(0)
        /\ run.pc = "failed" =>
              /\ main.status # NoValue /\ main.status # Some(0)
              /\ main.detail_traced
              /\ main.printed

====
